---- MODULE Spec2Model ----
(***************************************************************************)
(* Pastoral Familiar: the App component (src/App.tsx) as a state machine.  *)
(* The state is App's useState cells, the remote table membros_pastoral    *)
(* and the bag of asynchronous continuations that are still pending        *)
(* (awaited store calls and the setTimeout of handleRegister).  A handler  *)
(* runs atomically up to its first await; each continuation is one more    *)
(* action.  The useEffect keyed on loggedInAgent runs in the same step as  *)
(* the setLoggedInAgent call that triggers it.                             *)
(*                                                                         *)
(* A Member of the session specifications carries the fields the session   *)
(* logic reads: id, login, birthDate and role; the form specifications use *)
(* the whole record of emptyAgent.  Strings that the code transforms (the  *)
(* login, the phone, the postal code) are sequences of one-character       *)
(* strings; messages are sequences of text fragments, so that template     *)
(* strings and String.includes are computed.  errorLog (App.tsx line 18)   *)
(* is written by logAndSetError and read only by handleDownloadLog; no     *)
(* handler branches on it.  What a handler appends to it is defined apart  *)
(* from what the handler does to the other cells, and SpecLog runs the two *)
(* together; the log grows with every login attempt, so every other        *)
(* specification leaves it empty.                                          *)
(*                                                                         *)
(* Six specifications run App with the form as a source of records.  Spec  *)
(* runs every handler on the smallest inputs that log both initial users   *)
(* in.  SpecAuth runs the login screen alone (connection check, login,     *)
(* registration, logout) on every login, day and store failure of the      *)
(* model.  SpecNoKey is SpecAuth against a table without the unique key on *)
(* login.  SpecSave runs the sessions with save and delete, role edits and *)
(* failing upserts.  SpecConfig runs the login screen against a service    *)
(* that can be misconfigured at any call.  SpecLog runs the handlers with  *)
(* the error log.                                                          *)
(*                                                                         *)
(* The others run MemberForm (src/unnamed/part_003) inside Login or App,   *)
(* against a table with every column: SpecEdit and SpecProfile are a       *)
(* coordinator editing records, SpecRegister a newcomer registering,       *)
(* SpecPhone and SpecCep the masked inputs, SpecLookup the postal lookup.  *)
(* SpecValidate is the older form of src/components/MemberForm.tsx, the    *)
(* one with a validator, on its own.                                       *)
(***************************************************************************)
EXTENDS Integers, Sequences, FiniteSets, Bags, TLC

\* Bounds of the model.
MaxId == 3          \* ids the store's serial can hand out
MaxInflight == 2    \* pending continuations at one time
MaxDate == 2        \* distinct calendar days used as birth dates
MaxLog == 4         \* entries of the error log the model follows

\* JavaScript's undefined / 0 for a Member id: the falsy id of a record that
\* was never stored (emptyAgent has no id).
NoId == 0
\* The empty value of a date input ('').
NoDate == 0

COORDENADOR == "COORDENADOR"
AGENTE == "AGENTE"
NoRole == "undefined"
Roles == {AGENTE, COORDENADOR}

Dates == 1..MaxDate

\* null for a Member-valued cell.
Null == [id |-> -1, login |-> <<>>, birthDate |-> NoDate, role |-> "null"]
\* null for a message-valued cell (error, loginError).
NullMsg == <<>>

\* An errors mapping without entries.
NoErrors == [field \in {} |-> NullMsg]

\* MaritalStatus and Sector values the form's selects offer.
SOLTEIRO == "Solteiro"
CASADO == "Casado"
PRE_MATRIMONIAL == "PRE_MATRIMONIAL"
OTHER_SECTOR == "OTHER_SECTOR"
Sectors == {PRE_MATRIMONIAL, OTHER_SECTOR}

\* null in a column of the table.
DbNull == "null"

\* new Date().toISOString().split('T')[0]
Today == "today"

\* emptyAgent of MemberForm: no id, no role, every text field empty.  The
\* login, the phone and the postal code are sequences of characters; the
\* other texts are read only for being empty or not.
emptyAgent ==
  [id |-> NoId, role |-> NoRole, login |-> <<>>, photo |-> "", fullName |-> "",
   birthDate |-> NoDate, maritalStatus |-> SOLTEIRO, spouseName |-> "",
   weddingDate |-> "", phone |-> <<>>, email |-> "", cep |-> <<>>,
   street |-> "", neighborhood |-> "", city |-> "", state |-> "",
   hasVehicle |-> FALSE, vehicleModel |-> "", parish |-> "", community |-> "",
   sector |-> PRE_MATRIMONIAL, joinDate |-> Today, notes |-> ""]

\* ---------------------------------------------------------------------
\* String.prototype.toUpperCase and String.prototype.trim on logins.
UpperChar(c) ==
  CASE c = "a" -> "A"
    [] c = "b" -> "B"
    [] c = "c" -> "C"
    [] OTHER -> c

toUpperCase(s) == [i \in 1..Len(s) |-> UpperChar(s[i])]

RECURSIVE TrimStart(_)
TrimStart(s) == IF s # <<>> /\ Head(s) = " " THEN TrimStart(Tail(s)) ELSE s

RECURSIVE TrimEnd(_)
TrimEnd(s) ==
  IF s # <<>> /\ s[Len(s)] = " " THEN TrimEnd(SubSeq(s, 1, Len(s) - 1)) ELSE s

trim(s) == TrimEnd(TrimStart(s))

\* What the model's users type into a login field that has the `required`
\* attribute: the coordinator's and the agent's login in lower case, the
\* latter after a blank, a login nobody has, and a blank alone.
SessionLogins == { <<"a">>, <<" ", "b">> }
LoginInputs == SessionLogins \cup { <<"c">>, <<" ">> }

\* The login the model's user retypes in the member form.
FormLogins == { <<"a">> }

\* String.prototype.includes on a message, fragment by fragment.
Includes(msg, fragment) == \E i \in 1..Len(msg) : msg[i] = fragment

\* ---------------------------------------------------------------------
\* Messages.  A message is a sequence of text fragments.
MsgRequired == << "Login e data de nascimento sao obrigatorios." >>
MsgLoginGeneric ==
  << "Ocorreu um erro ao tentar fazer login. Por favor, tente novamente." >>
MsgInvalidCredentials ==
  << "Login ou data de nascimento incorretos. Por favor, verifique os dados e tente novamente." >>
MsgMultiple ==
  << "Existem multiplos cadastros com as mesmas credenciais. Por favor, contate o administrador do sistema." >>
MsgLoginInUse == << "Este login ja esta em uso. Por favor, escolha outro." >>
MsgNoPermEdit == << "Voce nao tem permissao para editar outros agentes." >>
MsgNoPermDelete == << "Voce nao tem permissao para excluir agentes." >>

\* The fragment handleRegister and handleSaveAgent look for in a store error.
DupKeyFragment ==
  "duplicate key value violates unique constraint membros_pastoral_login_key"

\* Error objects of the store client: a message and an HTTP status.
NoErr == [message |-> <<>>, status |-> 0]
ErrDuplicate == [message |-> << DupKeyFragment >>, status |-> 409]
ErrNetwork == [message |-> << "TypeError: Failed to fetch" >>, status |-> 0]
ErrJWT == [message |-> << "JWT", " expired" >>, status |-> 401]
ErrNoTable ==
  [message |-> << "Could not find the table", " public.membros_pastoral" >>,
   status |-> 404]

\* The failures the connection check tells apart, and the failure any later
\* store call can meet whatever the table holds.
ConnectionErrors == {ErrNetwork, ErrJWT, ErrNoTable}
StoreErrors == {ErrNetwork}

\* getErrorMessage: every error the model raises carries a string message.
getErrorMessage(err) == err.message

\* `Tentativa de login com: login='...', data de nascimento='...'`
TriedCredentials(cleanLogin, birthDate) ==
  << "Tentativa de login com: login='" >> \o cleanLogin
    \o << "', data de nascimento='", ToString(birthDate), "'" >>

RegisterFailure(message) == << "Falha ao cadastrar: " >> \o message \o << "." >>
SaveFailure(message) == << "Falha ao salvar o agente: " >> \o message
DeleteFailure(message) == << "Falha ao excluir o agente: " >> \o message
FetchFailure(message) == << "Falha ao carregar dados: " >> \o message
ConnectionFailure(message) ==
  << "Falha ao conectar ao banco de dados: " >> \o message \o << "." >>

\* ---------------------------------------------------------------------
VARIABLES
  store,            \* rows of membros_pastoral
  nextId,           \* the table's serial: the id of the next inserted row
  uniqueKey,        \* the table has the constraint membros_pastoral_login_key
  agents,           \* useState<Member[]>: the loaded record list
  currentView,      \* 'LIST' | 'FORM' | 'REPORTS' | 'ABOUT'
  agentToEdit,      \* the record under edit, or Null
  loading,
  error,            \* the user-visible error message, or NullMsg
  loginError,
  showConfigPanel,
  loggedInAgent,    \* the session identity, or Null
  inflight          \* bag of pending continuations

\* The state of the Login and MemberForm components.
VARIABLES
  isRegistering,    \* Login: the registration form is shown
  formAgent,        \* MemberForm: agent, the record as typed so far
  cepError,         \* MemberForm: the message under the postal code, or NullMsg
  isFetchingCep,    \* MemberForm: the lookup-in-progress flag
  cepLookups        \* bag of pending postal lookups of the mounted form

memberFormVars == << isRegistering, formAgent, cepError, isFetchingCep, cepLookups >>

\* The state of the form of components/MemberForm.tsx, which validates.
VARIABLES
  formState,        \* the record as typed so far
  errors,           \* the mapping from field to message
  onSaveArg         \* the record last handed to the onSave prop, or Null

validatedFormVars == << formState, errors, onSaveArg >>

\* useState<string[]>([]): the in-memory error log, a sequence of entries.
VARIABLES
  errorLog

formVars == << memberFormVars, validatedFormVars >>

\* What a specification of the sessions leaves alone: the components'
\* state and the log.
otherVars == << formVars, errorLog >>

vars == << store, nextId, uniqueKey, agents, currentView, agentToEdit, loading,
           error, loginError, showConfigPanel, loggedInAgent, inflight,
           formVars, errorLog >>

storeVars == << store, nextId, uniqueKey >>

\* A pending continuation: the awaited call (kind), the loggedInAgent or
\* user argument its closure captured, the record it carries, and the
\* handler that awaits it.
Request(kind, user, data, via) ==
  [kind |-> kind, user |-> user, data |-> data, via |-> via]

CheckReq == Request("check", Null, Null, "mount")
TimeoutReq == Request("timeout", Null, Null, "register")

Pending(kind) == {r \in BagToSet(inflight) : r.kind = kind}
Without(req) == inflight (-) SetToBag({req})
HasRoom(bag) == BagCardinality(bag) < MaxInflight

\* Rows that pending inserts (and upserts of a record without id) will add.
PendingCreates ==
  LET creators == {r \in BagToSet(inflight) :
                     r.kind = "insert" \/ (r.kind = "upsert" /\ r.data.id = NoId)}
  IN  BagCardinality([r \in creators |-> inflight[r]])

CanCreate == nextId + PendingCreates <= MaxId

\* The table when the application is first opened: one coordinator and one
\* agent.
InitialStore ==
  { [id |-> 1, login |-> << "A" >>, birthDate |-> 1, role |-> COORDENADOR],
    [id |-> 2, login |-> << "B" >>, birthDate |-> 1, role |-> AGENTE] }

\* The App state of a fresh page load, after the mount effect has called
\* checkDbConnection.
ClientInit ==
  /\ agents = {}
  /\ currentView = "LIST"
  /\ agentToEdit = Null
  /\ loading = TRUE
  /\ error = NullMsg
  /\ loginError = NullMsg
  /\ showConfigPanel = FALSE
  /\ loggedInAgent = Null
  /\ inflight = SetToBag({CheckReq})
  /\ errorLog = << >>

\* No form is mounted: Login starts with isRegistering false and a
\* MemberForm's state starts as useState gives it.
FormUnmounted ==
  /\ formAgent = emptyAgent
  /\ cepError = NullMsg
  /\ isFetchingCep = FALSE
  /\ cepLookups = EmptyBag

FormInit ==
  /\ isRegistering = FALSE
  /\ FormUnmounted
  /\ formState = Null
  /\ errors = NoErrors
  /\ onSaveArg = Null

Init ==
  /\ uniqueKey = TRUE
  /\ store = InitialStore
  /\ nextId = 3
  /\ ClientInit
  /\ FormInit

\* renderContent: which screen the user is looking at.
Screen ==
  IF loading /\ loggedInAgent = Null THEN "connecting"
  ELSE IF showConfigPanel THEN "config"
  ELSE IF loggedInAgent = Null THEN "login"
  ELSE "main"

\* loggedInAgent?.role
RoleOf(user) == IF user = Null THEN NoRole ELSE user.role

\* ---------------------------------------------------------------------
\* checkDbConnection, after its await: a failure is reported, and an
\* authentication or missing-table failure opens the configuration panel.
isAuthError(err) ==
  \/ Includes(getErrorMessage(err), "JWT")
  \/ Includes(getErrorMessage(err), "API key")
  \/ err.status = 401

isTableError(err) ==
  \/ (Includes(getErrorMessage(err), "relation")
        /\ Includes(getErrorMessage(err), "does not exist"))
  \/ Includes(getErrorMessage(err), "Could not find the table")
  \/ err.status = 404

CheckDbResponse(fail) ==
  /\ CheckReq \in BagToSet(inflight)
  /\ inflight' = Without(CheckReq)
  /\ loading' = FALSE
  /\ IF fail = NoErr
       THEN UNCHANGED << error, showConfigPanel >>
       ELSE /\ error' = ConnectionFailure(getErrorMessage(fail))
            /\ showConfigPanel' = (showConfigPanel \/ isAuthError(fail) \/ isTableError(fail))
  /\ UNCHANGED << storeVars, agents, currentView, agentToEdit, loginError, loggedInAgent >>

\* ---------------------------------------------------------------------
\* A variant of fetchDataForUser that trusts the loaded list instead of
\* asking the store.
fetchDataForUser_FromLocalCopy(user, pending, via) ==
  /\ error' = NullMsg
  /\ loading' = FALSE
  /\ inflight' = pending
  /\ agents' = IF user.role = COORDENADOR THEN agents ELSE {user}

\* fetchDataForUser(user), up to its await: a coordinator's list is asked
\* of the store, any other user's list is the user's own record.  `pending`
\* is the bag the new request joins; `via` is the handler awaiting it.
fetchDataForUser(user, pending, via) ==
  /\ error' = NullMsg
  /\ IF user.role = COORDENADOR
       THEN /\ loading' = TRUE
            /\ inflight' = pending (+) SetToBag({Request("list", user, Null, via)})
            /\ agents' = agents
       ELSE /\ loading' = FALSE
            /\ inflight' = pending
            /\ agents' = {user}

\* useEffect[loggedInAgent], loggedInAgent set: load the user's data and
\* show the list.
UseEffectLoggedIn(user, pending) ==
  /\ fetchDataForUser(user, pending, "effect")
  /\ currentView' = "LIST"

\* A variant of the effect that forgets setAgents([]).
UseEffectLoggedOut_KeepsList ==
  /\ agents' = agents
  /\ loginError' = NullMsg

\* useEffect[loggedInAgent], loggedInAgent null.
UseEffectLoggedOut ==
  /\ agents' = {}
  /\ loginError' = NullMsg

\* setLoggedInAgent(user) with the effect it triggers.
SetLoggedInAgent(user, pending) ==
  /\ loggedInAgent' = user
  /\ UseEffectLoggedIn(user, pending)

\* A variant of the list's answer in which the finally of handleSaveAgent
\* is missing.
ListResponse_WithoutFinally(req, fail) ==
  /\ req \in Pending("list")
  /\ inflight' = Without(req)
  /\ loading' = FALSE
  /\ IF fail = NoErr
       THEN /\ agents' = store
            /\ error' = error
       ELSE /\ agents' = agents
            /\ error' = FetchFailure(getErrorMessage(fail))
  /\ UNCHANGED << storeVars, currentView, agentToEdit, loginError,
                  showConfigPanel, loggedInAgent >>

\* fetchDataForUser after its await.
ListResponse(req, fail) ==
  /\ req \in Pending("list")
  /\ inflight' = Without(req)
  /\ loading' = FALSE
  /\ IF fail = NoErr
       THEN /\ agents' = store
            /\ error' = error
       ELSE /\ agents' = agents
            /\ error' = FetchFailure(getErrorMessage(fail))
  /\ IF req.via = "save"
       THEN /\ currentView' = "LIST"     \* the finally of handleSaveAgent
            /\ agentToEdit' = Null
       ELSE UNCHANGED << currentView, agentToEdit >>
  /\ UNCHANGED << storeVars, loginError, showConfigPanel, loggedInAgent >>

\* ---------------------------------------------------------------------
\* The rows the login query selects: login equal to the cleaned login and
\* birthDate within the UTC day [startDate, endDate).
startDate(birthDate) == birthDate
endDate(birthDate) == startDate(birthDate) + 1

\* A variant of the query with gt in place of gte.
Matches_AfterStart(rows, cleanLogin, birthDate) ==
  {r \in rows : /\ r.login = cleanLogin
                /\ r.birthDate > startDate(birthDate)
                /\ r.birthDate < endDate(birthDate)}

Matches(rows, cleanLogin, birthDate) ==
  {r \in rows : /\ r.login = cleanLogin
                /\ r.birthDate >= startDate(birthDate)
                /\ r.birthDate < endDate(birthDate)}

\* handleLogin up to its await.  A blank login or date fails at once.
handleLoginCall(login, birthDate, pending, via) ==
  LET cleanLogin == toUpperCase(trim(login))
      credentials == [id |-> NoId, login |-> cleanLogin,
                      birthDate |-> birthDate, role |-> NoRole]
  IN  IF cleanLogin = <<>> \/ birthDate = NoDate
        THEN /\ loading' = FALSE
             /\ error' = MsgRequired
             /\ loginError' = MsgRequired
             /\ inflight' = pending
        ELSE /\ HasRoom(pending)
             /\ loading' = TRUE
             /\ error' = TriedCredentials(cleanLogin, birthDate)
             /\ loginError' = NullMsg
             /\ inflight' = pending (+) SetToBag({Request("login", Null, credentials, via)})

handleLogin(login, birthDate) ==
  /\ Screen = "login"
  /\ handleLoginCall(login, birthDate, inflight, "form")
  /\ UNCHANGED << storeVars, agents, currentView, agentToEdit, showConfigPanel,
                  loggedInAgent >>

\* What handleLogin makes of the store's answer: the session identity it
\* sets (Null for none) and the message it reports (NullMsg for none).
\* channel is "data" (rows returned), "error" (the client returned an error
\* object) or "throw" (the awaited call itself threw).
\* Variants of handleLogin's answer handling: one without the check for an
\* empty result, one without the check for several rows, and one that
\* rethrows the store's error object.
LoginResult_NoEmptyCheck(channel, err, data) ==
  IF channel = "throw" THEN [agent |-> Null, message |-> getErrorMessage(err)]
  ELSE IF channel = "error" THEN [agent |-> Null, message |-> MsgLoginGeneric]
  ELSE IF Cardinality(data) > 1 THEN [agent |-> Null, message |-> MsgMultiple]
  ELSE IF data = {} THEN [agent |-> Null, message |-> MsgLoginGeneric]
  ELSE [agent |-> CHOOSE r \in data : TRUE, message |-> NullMsg]

LoginResult_FirstRow(channel, err, data) ==
  IF channel = "throw" THEN [agent |-> Null, message |-> getErrorMessage(err)]
  ELSE IF channel = "error" THEN [agent |-> Null, message |-> MsgLoginGeneric]
  ELSE IF data = {} THEN [agent |-> Null, message |-> MsgInvalidCredentials]
  ELSE [agent |-> CHOOSE r \in data : TRUE, message |-> NullMsg]

LoginResult_Rethrow(channel, err, data) ==
  IF channel \in {"throw", "error"}
    THEN [agent |-> Null, message |-> getErrorMessage(err)]
  ELSE IF data = {} THEN [agent |-> Null, message |-> MsgInvalidCredentials]
  ELSE IF Cardinality(data) > 1 THEN [agent |-> Null, message |-> MsgMultiple]
  ELSE [agent |-> CHOOSE r \in data : TRUE, message |-> NullMsg]

LoginResult(channel, err, data) ==
  IF channel = "throw" THEN [agent |-> Null, message |-> getErrorMessage(err)]
  ELSE IF channel = "error" THEN [agent |-> Null, message |-> MsgLoginGeneric]
  ELSE IF data = {} THEN [agent |-> Null, message |-> MsgInvalidCredentials]
  ELSE IF Cardinality(data) > 1 THEN [agent |-> Null, message |-> MsgMultiple]
  ELSE [agent |-> CHOOSE r \in data : TRUE, message |-> NullMsg]

LoginOutcomes ==
  {[channel |-> "data", err |-> NoErr]}
    \cup {[channel |-> c, err |-> e] : c \in {"error", "throw"}, e \in StoreErrors}

\* handleLogin after its await.
LoginResponse(req, out) ==
  /\ req \in Pending("login")
  /\ LET data == Matches(store, req.data.login, req.data.birthDate)
         res == LoginResult(out.channel, out.err, data)
     IN  IF res.agent = Null
           THEN /\ error' = res.message
                /\ loginError' = res.message
                /\ loading' = FALSE
                /\ inflight' = Without(req)
                /\ UNCHANGED << agents, currentView, loggedInAgent >>
           ELSE /\ SetLoggedInAgent(res.agent, Without(req))
                /\ UNCHANGED loginError
  /\ UNCHANGED << storeVars, agentToEdit, showConfigPanel >>

\* handleLogout, with the effect it triggers.
handleLogout ==
  /\ loggedInAgent # Null
  /\ loggedInAgent' = Null
  /\ UseEffectLoggedOut
  /\ UNCHANGED << storeVars, currentView, agentToEdit, loading, error,
                  showConfigPanel, inflight >>

\* ---------------------------------------------------------------------
\* A variant of the unique key that is checked for new rows only.
LoginTaken_OnInsertOnly(row) ==
  uniqueKey /\ row.id = NoId /\ \E r \in store : r.login = row.login

\* The store's insert and upsert.  With the unique key in place a second
\* row with the same login is refused.
LoginTaken(row) ==
  uniqueKey /\ \E r \in store : r.id # row.id /\ r.login = row.login

WriteError(row) == IF LoginTaken(row) THEN ErrDuplicate ELSE NoErr

\* upsert: a row without id is inserted under the next serial id; a row
\* with an id replaces the row of that id, or is inserted under it.
Upserted(row) ==
  IF row.id = NoId
    THEN store \cup {[row EXCEPT !.id = nextId]}
    ELSE {r \in store : r.id # row.id} \cup {row}

\* A variant that reports every store error as it came.
WriteErrorMessage_Raw(err) == getErrorMessage(err)

\* The message reported for a failed insert or upsert.
WriteErrorMessage(err) ==
  IF Includes(err.message, DupKeyFragment) THEN MsgLoginInUse
  ELSE getErrorMessage(err)

\* ---------------------------------------------------------------------
\* What the registration form can submit: login and birth date are
\* required inputs; the record carries no id.
RegisterInputs(logins, dates) ==
  {[id |-> NoId, login |-> l, birthDate |-> d, role |-> r] :
     l \in logins, d \in dates, r \in {NoRole, COORDENADOR}}

\* The optional columns both handlers write as `value || null`.
NullableFields == {"weddingDate", "spouseName", "vehicleModel", "photo", "notes"}

\* x || null, for every optional column the record carries.
OrNull(agentData) ==
  IF NullableFields \cap DOMAIN agentData = {} THEN agentData
  ELSE [f \in DOMAIN agentData |->
          IF f \in NullableFields /\ agentData[f] = "" THEN DbNull
          ELSE agentData[f]]

\* A variant of dataToInsert that lets the submitted role through.
DataToInsert_KeepsRole(agentData) ==
  [OrNull(agentData) EXCEPT
     !.id = NoId,
     !.login = toUpperCase(agentData.login),
     !.role = IF agentData.role = NoRole THEN AGENTE ELSE agentData.role]

\* dataToInsert of handleRegister: the id is dropped, the login is upper
\* cased, the role is AGENTE and the empty optional fields are null.
DataToInsert(agentData) ==
  [OrNull(agentData) EXCEPT
     !.id = NoId,
     !.login = toUpperCase(agentData.login),
     !.role = AGENTE]

\* handleRegister up to its await.
handleRegister(agentData) ==
  /\ Screen = "login"
  /\ HasRoom(inflight)
  /\ CanCreate
  /\ loading' = TRUE
  /\ error' = NullMsg
  /\ inflight' = inflight (+) SetToBag({Request("insert", Null, agentData, "register")})
  /\ UNCHANGED << storeVars, agents, currentView, agentToEdit, loginError,
                  showConfigPanel, loggedInAgent >>

\* handleRegister after its await: a failure is reported and cleared five
\* seconds later; a success goes on to handleLogin with the submitted login.
RegisterResponse(req, fail) ==
  /\ req \in Pending("insert")
  /\ LET row == DataToInsert(req.data)
         err == IF fail # NoErr THEN fail ELSE WriteError(row)
     IN  IF err # NoErr
           THEN /\ error' = RegisterFailure(WriteErrorMessage(err))
                /\ loading' = FALSE
                /\ inflight' = Without(req) (+) SetToBag({TimeoutReq})
                /\ UNCHANGED << store, nextId, loginError >>
           ELSE /\ store' = Upserted(row)
                /\ nextId' = nextId + 1
                /\ handleLoginCall(req.data.login, req.data.birthDate,
                                   Without(req), "register")
  /\ UNCHANGED << uniqueKey, agents, currentView, agentToEdit, showConfigPanel,
                  loggedInAgent >>

\* setTimeout(() => setError(null), 5000)
RegisterErrorTimeout ==
  /\ TimeoutReq \in BagToSet(inflight)
  /\ inflight' = Without(TimeoutReq)
  /\ error' = NullMsg
  /\ UNCHANGED << storeVars, agents, currentView, agentToEdit, loading,
                  loginError, showConfigPanel, loggedInAgent >>

\* ---------------------------------------------------------------------
\* renderContent: the component shown to a session.
ShowsList ==
  /\ Screen = "main"
  /\ \/ RoleOf(loggedInAgent) = COORDENADOR /\ currentView = "LIST"
     \/ RoleOf(loggedInAgent) = AGENTE /\ currentView \in {"LIST", "REPORTS"}

ShowsForm ==
  /\ Screen = "main"
  /\ RoleOf(loggedInAgent) \in Roles
  /\ currentView = "FORM"

isSelfEditing == RoleOf(loggedInAgent) = AGENTE

\* What MemberForm can submit: the record under edit (emptyAgent for none)
\* with the login and birth date the user typed and the role the user
\* selected, if any; the role select is shown unless the form is
\* self-editing.  The id is not a form field.
FormInputs(logins, dates, roles) ==
  LET base == IF agentToEdit = Null THEN emptyAgent ELSE agentToEdit
  IN  {[id |-> base.id, login |-> l, birthDate |-> d, role |-> r] :
         l \in (logins \cup {base.login}) \ {<<>>},
         d \in IF base.birthDate = NoDate THEN dates ELSE {base.birthDate},
         r \in IF isSelfEditing THEN {base.role} ELSE roles \cup {base.role}}

\* A variant of dataToUpsert that leaves the photo out.
DataToUpsert_WithoutPhoto(agentData) ==
  [OrNull(agentData) EXCEPT !.login = toUpperCase(agentData.login),
                            !.photo = DbNull]

\* dataToUpsert of handleSaveAgent: the login is upper cased and the empty
\* optional fields are null.
DataToUpsert(agentData) ==
  [OrNull(agentData) EXCEPT !.login = toUpperCase(agentData.login)]

\* A variant of the guard that lets a record without id through.
SaveForbidden_NewRecordPasses(user, agentData) ==
  user.role = AGENTE /\ agentData.id # NoId /\ agentData.id # user.id

\* The guard of handleSaveAgent: an AGENTE may save only the record whose
\* id is the session's.
SaveForbidden(user, agentData) ==
  user.role = AGENTE /\ agentData.id # user.id

\* handleSaveAgent up to its await.
handleSaveAgent(agentData) ==
  /\ ShowsForm
  /\ IF SaveForbidden(loggedInAgent, agentData)
       THEN /\ error' = MsgNoPermEdit
            /\ UNCHANGED inflight
       ELSE /\ HasRoom(inflight)
            /\ agentData.id = NoId => CanCreate
            /\ inflight' = inflight (+)
                 SetToBag({Request("upsert", loggedInAgent, agentData, "save")})
            /\ UNCHANGED error
  /\ UNCHANGED << storeVars, agents, currentView, agentToEdit, loading,
                  loginError, showConfigPanel, loggedInAgent >>

\* handleSaveAgent after its await.  req.user is the loggedInAgent the
\* handler's closure captured when it was called.
SaveResponse(req, fail) ==
  /\ req \in Pending("upsert")
  /\ LET row == DataToUpsert(req.data)
         err == IF fail # NoErr THEN fail ELSE WriteError(row)
     IN  IF err # NoErr
           THEN /\ error' = SaveFailure(WriteErrorMessage(err))
                /\ inflight' = Without(req)
                /\ currentView' = "LIST"
                /\ agentToEdit' = Null
                /\ UNCHANGED << store, nextId, agents, loading, loggedInAgent >>
           ELSE /\ store' = Upserted(row)
                /\ nextId' = IF row.id = NoId THEN nextId + 1 ELSE nextId
                /\ IF req.user.id = req.data.id
                     THEN /\ SetLoggedInAgent(req.data, Without(req))
                          /\ agentToEdit' = Null
                     ELSE /\ fetchDataForUser(req.user, Without(req), "save")
                          /\ UNCHANGED loggedInAgent
                          /\ IF req.user.role = COORDENADOR
                               THEN UNCHANGED << currentView, agentToEdit >>
                               ELSE /\ currentView' = "LIST"
                                    /\ agentToEdit' = Null
  /\ UNCHANGED << uniqueKey, loginError, showConfigPanel >>

\* ---------------------------------------------------------------------
\* The guard of handleDeleteAgent.
DeleteForbidden(user) == RoleOf(user) # COORDENADOR

\* handleDeleteAgent up to its await.  MemberList hands the handler to a
\* coordinator; the handler's own guard is exercised by every session that
\* is shown the list.  confirmed is the answer to window.confirm.
handleDeleteAgent(id, confirmed) ==
  /\ ShowsList
  /\ IF DeleteForbidden(loggedInAgent)
       THEN /\ error' = MsgNoPermDelete
            /\ UNCHANGED inflight
       ELSE /\ \E a \in agents : a.id = id
            /\ IF confirmed
                 THEN /\ HasRoom(inflight)
                      /\ inflight' = inflight (+)
                           SetToBag({Request("delete", Null, [Null EXCEPT !.id = id], "delete")})
                 ELSE UNCHANGED inflight
            /\ UNCHANGED error
  /\ UNCHANGED << storeVars, agents, currentView, agentToEdit, loading,
                  loginError, showConfigPanel, loggedInAgent >>

\* handleDeleteAgent after its await.
DeleteResponse(req, fail) ==
  /\ req \in Pending("delete")
  /\ inflight' = Without(req)
  /\ IF fail = NoErr
       THEN /\ store' = {r \in store : r.id # req.data.id}
            /\ agents' = {m \in agents : m.id # req.data.id}
            /\ UNCHANGED error
       ELSE /\ error' = DeleteFailure(getErrorMessage(fail))
            /\ UNCHANGED << store, agents >>
  /\ UNCHANGED << nextId, uniqueKey, currentView, agentToEdit, loading,
                  loginError, showConfigPanel, loggedInAgent >>

\* ---------------------------------------------------------------------
handleEditAgent(id) ==
  /\ ShowsList
  /\ \E agent \in agents :
       /\ agent.id = id
       /\ agentToEdit' = agent
  /\ currentView' = "FORM"
  /\ UNCHANGED << storeVars, agents, loading, error, loginError,
                  showConfigPanel, loggedInAgent, inflight >>

handleAddNew ==
  /\ ShowsList
  /\ RoleOf(loggedInAgent) = COORDENADOR
  /\ agentToEdit' = Null
  /\ currentView' = "FORM"
  /\ UNCHANGED << storeVars, agents, loading, error, loginError,
                  showConfigPanel, loggedInAgent, inflight >>

handleCancel ==
  /\ ShowsForm
  /\ ~isSelfEditing
  /\ agentToEdit' = Null
  /\ currentView' = "LIST"
  /\ UNCHANGED << storeVars, agents, loading, error, loginError,
                  showConfigPanel, loggedInAgent, inflight >>

\* Header: the views a session can navigate to.
navItems ==
  IF RoleOf(loggedInAgent) = COORDENADOR THEN {"LIST", "REPORTS", "ABOUT"}
  ELSE {"FORM", "ABOUT"}

setCurrentView(view) ==
  /\ loggedInAgent # Null
  /\ view \in navItems
  /\ currentView' = view
  /\ UNCHANGED << storeVars, agents, agentToEdit, loading, error, loginError,
                  showConfigPanel, loggedInAgent, inflight >>

\* handleConfigSave: the settings are stored and the page reloads, which
\* drops every pending continuation and mounts App afresh.
handleConfigSave ==
  /\ Screen = "config"
  /\ agents' = {}
  /\ currentView' = "LIST"
  /\ agentToEdit' = Null
  /\ loading' = TRUE
  /\ error' = NullMsg
  /\ loginError' = NullMsg
  /\ showConfigPanel' = FALSE
  /\ loggedInAgent' = Null
  /\ inflight' = SetToBag({CheckReq})
  /\ UNCHANGED storeVars

\* ---------------------------------------------------------------------
\* The error log.  An entry is `${timestamp} [${context}]: ${message}`; the
\* model keeps the context and the message.
LogEntry(message, context) == [context |-> context, message |-> message]

\* A variant of logAndSetError that keeps only the latest entry.
logAndSetError_KeepsLatest(prev, message, context) ==
  IF message # NullMsg THEN << LogEntry(message, context) >> ELSE prev

\* logAndSetError(message, context), the log's half: setErrorLog(prev =>
\* [...prev, entry]) for a message that is not empty.  The other half,
\* setError(message), is in the handlers.
logAndSetError(prev, message, context) ==
  IF message # NullMsg THEN Append(prev, LogEntry(message, context)) ELSE prev

\* Messages that are only logged.
MsgDbResponse(channel, data) ==
  << "Dados retornados pelo banco de dados: ",
     IF channel = "data" THEN ToString({r.id : r \in data}) ELSE "null" >>
MsgSupabaseError(err) == << "Erro retornado pelo Supabase: " >> \o getErrorMessage(err)
MsgNoAgentFound == << "Nenhum agente encontrado com as credenciais fornecidas." >>
MsgInconsistent ==
  << "Inconsistencia de dados: Multiplos cadastros encontrados para o mesmo login e data de nascimento. Contate o administrador." >>

\* The log after checkDbConnection's answer.
CheckDbResponseLog(fail) ==
  IF fail = NoErr THEN errorLog
  ELSE logAndSetError(errorLog, ConnectionFailure(getErrorMessage(fail)), "DB_CONNECTION")

\* The log after handleLogin up to its await: the attempt, and the failure
\* of a blank login or date.
handleLoginLog(prev, login, birthDate) ==
  LET cleanLogin == toUpperCase(trim(login))
      attempt == logAndSetError(prev, TriedCredentials(cleanLogin, birthDate),
                                "LOGIN_ATTEMPT")
  IN  IF cleanLogin = <<>> \/ birthDate = NoDate
        THEN logAndSetError(attempt, MsgRequired, "LOGIN")
        ELSE attempt

\* The log after handleLogin's answer: the rows returned, then the reason
\* of a failure, then the failure as the catch reports it.
LoginResponseLog(req, out) ==
  LET data == Matches(store, req.data.login, req.data.birthDate)
      res == LoginResult(out.channel, out.err, data)
      response == IF out.channel = "throw" THEN errorLog
                  ELSE logAndSetError(errorLog, MsgDbResponse(out.channel, data),
                                      "DB_RESPONSE")
      reason == IF out.channel = "throw" THEN response
                ELSE IF out.channel = "error"
                  THEN logAndSetError(response, MsgSupabaseError(out.err), "SUPABASE_ERROR")
                ELSE IF data = {}
                  THEN logAndSetError(response, MsgNoAgentFound, "LOGIN_FAILURE")
                ELSE IF Cardinality(data) > 1
                  THEN logAndSetError(response, MsgInconsistent, "DATA_INTEGRITY_ERROR")
                ELSE response
  IN  IF res.agent = Null THEN logAndSetError(reason, res.message, "LOGIN")
      ELSE reason

\* The log after handleRegister's answer: the failure, or what the login
\* that follows a success logs.
RegisterResponseLog(req, fail) ==
  LET row == DataToInsert(req.data)
      err == IF fail # NoErr THEN fail ELSE WriteError(row)
  IN  IF err # NoErr
        THEN logAndSetError(errorLog, RegisterFailure(WriteErrorMessage(err)), "REGISTER")
        ELSE handleLoginLog(errorLog, req.data.login, req.data.birthDate)

\* The log after fetchDataForUser's answer.
ListResponseLog(fail) ==
  IF fail = NoErr THEN errorLog
  ELSE logAndSetError(errorLog, FetchFailure(getErrorMessage(fail)), "FETCH_DATA")

\* The log after handleSaveAgent up to its await, and after its answer.
handleSaveAgentLog(agentData) ==
  IF SaveForbidden(loggedInAgent, agentData)
    THEN logAndSetError(errorLog, MsgNoPermEdit, "SAVE_AGENT")
    ELSE errorLog

SaveResponseLog(req, fail) ==
  LET row == DataToUpsert(req.data)
      err == IF fail # NoErr THEN fail ELSE WriteError(row)
  IN  IF err # NoErr
        THEN logAndSetError(errorLog, SaveFailure(WriteErrorMessage(err)), "SAVE_AGENT")
        ELSE errorLog

\* The log after handleDeleteAgent up to its await, and after its answer.
handleDeleteAgentLog ==
  IF DeleteForbidden(loggedInAgent)
    THEN logAndSetError(errorLog, MsgNoPermDelete, "DELETE_AGENT")
    ELSE errorLog

DeleteResponseLog(fail) ==
  IF fail = NoErr THEN errorLog
  ELSE logAndSetError(errorLog, DeleteFailure(getErrorMessage(fail)), "DELETE_AGENT")

\* setErrorLog: the log becomes `next`; the model follows the log up to
\* MaxLog entries.
setErrorLog(next) ==
  /\ Len(next) <= MaxLog
  /\ errorLog' = next

\* ---------------------------------------------------------------------
\* MemberForm and the Login component that shows it for a registration.
\* Typed text is a sequence of one-character strings.
Digit == {"0", "1", "2", "3", "4", "5", "6", "7", "8", "9"}

IsDigit(c) == c \in Digit

\* value.replace(/[^\d]/g, '')
OnlyNums(value) == SelectSeq(value, IsDigit)

\* s.slice(from, to)
Slice(s, from, to) ==
  LET last == IF to < Len(s) THEN to ELSE Len(s)
  IN  IF from >= last THEN <<>> ELSE SubSeq(s, from + 1, last)

\* A variant of formatPhone that masks the typed text as it is.
formatPhone_KeepsPunctuation(value) ==
  IF value = <<>> THEN value
  ELSE LET onlyNums == value
       IN  IF Len(onlyNums) <= 2 THEN <<"(">> \o onlyNums
           ELSE IF Len(onlyNums) <= 6
             THEN <<"(">> \o Slice(onlyNums, 0, 2) \o <<")", " ">>
                    \o Slice(onlyNums, 2, Len(onlyNums))
           ELSE IF Len(onlyNums) <= 10
             THEN <<"(">> \o Slice(onlyNums, 0, 2) \o <<")", " ">>
                    \o Slice(onlyNums, 2, 6) \o <<"-">>
                    \o Slice(onlyNums, 6, Len(onlyNums))
           ELSE <<"(">> \o Slice(onlyNums, 0, 2) \o <<")", " ">>
                  \o Slice(onlyNums, 2, 7) \o <<"-">> \o Slice(onlyNums, 7, 11)

formatPhone(value) ==
  IF value = <<>> THEN value
  ELSE LET onlyNums == OnlyNums(value)
       IN  IF Len(onlyNums) <= 2 THEN <<"(">> \o onlyNums
           ELSE IF Len(onlyNums) <= 6
             THEN <<"(">> \o Slice(onlyNums, 0, 2) \o <<")", " ">>
                    \o Slice(onlyNums, 2, Len(onlyNums))
           ELSE IF Len(onlyNums) <= 10
             THEN <<"(">> \o Slice(onlyNums, 0, 2) \o <<")", " ">>
                    \o Slice(onlyNums, 2, 6) \o <<"-">>
                    \o Slice(onlyNums, 6, Len(onlyNums))
           ELSE <<"(">> \o Slice(onlyNums, 0, 2) \o <<")", " ">>
                  \o Slice(onlyNums, 2, 7) \o <<"-">> \o Slice(onlyNums, 7, 11)

\* A variant of formatCEP that keeps every digit after the hyphen.
formatCEP_NoLimit(value) ==
  IF value = <<>> THEN value
  ELSE LET onlyNums == OnlyNums(value)
       IN  IF Len(onlyNums) > 5
             THEN Slice(onlyNums, 0, 5) \o <<"-">> \o Slice(onlyNums, 5, Len(onlyNums))
             ELSE onlyNums

formatCEP(value) ==
  IF value = <<>> THEN value
  ELSE LET onlyNums == OnlyNums(value)
       IN  IF Len(onlyNums) > 5
             THEN Slice(onlyNums, 0, 5) \o <<"-">> \o Slice(onlyNums, 5, 8)
             ELSE onlyNums

\* The messages MemberForm shows under the postal code.
MsgCepInvalid == << "CEP invalido." >>
MsgCepNotFound == << "CEP nao encontrado." >>
MsgCepFailure == << "Erro ao buscar CEP. Verifique sua conexao." >>

\* Login renders MemberForm while isRegistering; a session is shown it in
\* the FORM view.
FormShown == (Screen = "login" /\ isRegistering) \/ ShowsForm

isFirstTimeRegister == Screen = "login"

\* The agentToEdit prop: Login passes null, App passes its agentToEdit.
AgentToEditProp == IF Screen = "login" THEN Null ELSE agentToEdit

\* useEffect[agentToEdit] of MemberForm.
AgentOf(prop) == IF prop = Null THEN emptyAgent ELSE prop

\* What a render after an App or Login step does to the two components.
\* Login is unmounted, and its isRegistering lost, whenever another screen
\* is shown.  A MemberForm that is not rendered is unmounted: its state is
\* gone and the responses of its lookups have nothing to set.  A MemberForm
\* that appears is mounted with fresh state, and its effect loads the prop.
MemberFormRender ==
  IF ~FormShown'
    THEN /\ formAgent' = emptyAgent
         /\ cepError' = NullMsg
         /\ isFetchingCep' = FALSE
         /\ cepLookups' = EmptyBag
  ELSE IF ~FormShown \/ Screen' # Screen
    THEN /\ formAgent' = AgentOf(AgentToEditProp')
         /\ cepError' = NullMsg
         /\ isFetchingCep' = FALSE
         /\ cepLookups' = EmptyBag
  ELSE IF AgentToEditProp' # AgentToEditProp
    THEN /\ formAgent' = AgentOf(AgentToEditProp')
         /\ UNCHANGED << cepError, isFetchingCep, cepLookups >>
  ELSE UNCHANGED << formAgent, cepError, isFetchingCep, cepLookups >>

ComponentsRender ==
  /\ isRegistering' = (isRegistering /\ Screen' = "login")
  /\ MemberFormRender
  /\ UNCHANGED validatedFormVars

appVars == << store, nextId, uniqueKey, agents, currentView, agentToEdit,
              loading, error, loginError, showConfigPanel, loggedInAgent,
              inflight, errorLog >>

\* Login: the "first registration" and "already registered" buttons.
setIsRegistering(value) ==
  /\ Screen = "login"
  /\ isRegistering # value
  /\ isRegistering' = value
  /\ UNCHANGED << appVars, validatedFormVars >>
  /\ MemberFormRender

\* The inputs MemberForm renders: the spouse and wedding inputs only for a
\* married agent, the vehicle model only with the vehicle box checked, the
\* role select only to a coordinator; the address inputs are disabled
\* during a lookup.
InputRendered(name) ==
  CASE name \in {"spouseName", "weddingDate"} -> formAgent.maritalStatus = CASADO
    [] name = "vehicleModel" -> formAgent.hasVehicle
    [] name = "role" -> ~isSelfEditing /\ ~isFirstTimeRegister
    [] name \in {"street", "neighborhood", "city", "state"} -> ~isFetchingCep
    [] OTHER -> TRUE

\* handleChange: the field takes the typed value, masked for the phone and
\* the postal code.
handleChange(name, value) ==
  /\ FormShown
  /\ InputRendered(name)
  /\ formAgent' = [formAgent EXCEPT ![name] =
                     IF name = "phone" THEN formatPhone(value)
                     ELSE IF name = "cep" THEN formatCEP(value)
                     ELSE value]
  /\ UNCHANGED << appVars, validatedFormVars, isRegistering, cepError,
                  isFetchingCep, cepLookups >>

\* A variant of handleCepBlur whose new lookup cancels the pending ones.
handleCepBlur_CancelsPrevious ==
  /\ FormShown
  /\ LET cep == OnlyNums(formAgent.cep)
     IN  IF Len(cep) # 8
           THEN /\ cepError' = IF Len(cep) > 0 THEN MsgCepInvalid ELSE NullMsg
                /\ UNCHANGED << isFetchingCep, cepLookups >>
           ELSE /\ cepError' = NullMsg
                /\ isFetchingCep' = TRUE
                /\ cepLookups' = SetToBag({[cep |-> cep]})
  /\ UNCHANGED << appVars, validatedFormVars, isRegistering, formAgent >>

\* handleCepBlur up to its await: eight digits start a lookup.
handleCepBlur ==
  /\ FormShown
  /\ LET cep == OnlyNums(formAgent.cep)
     IN  IF Len(cep) # 8
           THEN /\ cepError' = IF Len(cep) > 0 THEN MsgCepInvalid ELSE NullMsg
                /\ UNCHANGED << isFetchingCep, cepLookups >>
           ELSE /\ HasRoom(cepLookups)
                /\ cepError' = NullMsg
                /\ isFetchingCep' = TRUE
                /\ cepLookups' = cepLookups (+) SetToBag({[cep |-> cep]})
  /\ UNCHANGED << appVars, validatedFormVars, isRegistering, formAgent >>

\* What the postal service can answer: an address, "erro" for a postal
\* code it does not know, a response that is not OK, or no response.
Address(street, neighborhood, city, state) ==
  [street |-> street, neighborhood |-> neighborhood, city |-> city,
   state |-> state]

NoAddress == Address("", "", "", "")

CepOutcomes(addresses) ==
  {[kind |-> "found", data |-> a] : a \in addresses}
    \cup {[kind |-> k, data |-> NoAddress] : k \in {"erro", "notOk", "throw"}}

\* A variant of the lookup's catch that clears the address.
CepFailed_ClearsAddress ==
  /\ cepError' = MsgCepFailure
  /\ formAgent' = [formAgent EXCEPT !.street = "", !.neighborhood = "",
                                    !.city = "", !.state = ""]

\* The catch of handleCepBlur.
CepFailed ==
  /\ cepError' = MsgCepFailure
  /\ UNCHANGED formAgent

\* A variant of the not-found branch that keeps the address.
CepNotFound_KeepsAddress ==
  /\ cepError' = MsgCepNotFound
  /\ UNCHANGED formAgent

\* The data.erro branch of handleCepBlur.
CepNotFound ==
  /\ cepError' = MsgCepNotFound
  /\ formAgent' = [formAgent EXCEPT !.street = "", !.neighborhood = "",
                                    !.city = "", !.state = ""]

\* handleCepBlur after its await.
CepResponse(req, out) ==
  /\ FormShown
  /\ req \in BagToSet(cepLookups)
  /\ cepLookups' = cepLookups (-) SetToBag({req})
  /\ CASE out.kind = "found" ->
            /\ formAgent' = [formAgent EXCEPT
                               !.street = out.data.street,
                               !.neighborhood = out.data.neighborhood,
                               !.city = out.data.city,
                               !.state = out.data.state]
            /\ UNCHANGED cepError
       [] out.kind = "erro" -> CepNotFound
       [] OTHER -> CepFailed
  /\ isFetchingCep' = FALSE
  /\ UNCHANGED << appVars, validatedFormVars, isRegistering >>

\* The inputs marked required, which the browser checks before it fires
\* the form's submit event; a select always has a value.
RequiredFilled ==
  /\ formAgent.fullName # ""
  /\ formAgent.login # <<>>
  /\ formAgent.birthDate # NoDate
  /\ formAgent.phone # <<>>
  /\ formAgent.email # ""
  /\ formAgent.joinDate # ""

\* handleSubmit: the record as typed goes to onSave, which is
\* handleRegister under Login and handleSaveAgent in a session.
handleSubmit ==
  /\ FormShown
  /\ RequiredFilled
  /\ IF isFirstTimeRegister
       THEN handleRegister(formAgent)
       ELSE handleSaveAgent(formAgent)
  /\ ComponentsRender

\* ---------------------------------------------------------------------
\* components/MemberForm.tsx, the form with a validator.  It takes
\* memberToEdit and onSave as props; an e-mail is a sequence of characters.
initialState ==
  [fullName |-> "", photo |-> "", birthDate |-> "", maritalStatus |-> SOLTEIRO,
   spouseName |-> "", phone |-> "", email |-> <<>>, cep |-> "", street |-> "",
   neighborhood |-> "", city |-> "", state |-> "", parish |-> "",
   community |-> "", role |-> "", joinDate |-> "", notes |-> ""]

MsgFieldRequired == << "Este campo e obrigatorio." >>
MsgSpouseRequired == << "Nome do conjuge e obrigatorio para casados." >>
MsgEmailInvalid == << "E-mail invalido." >>

requiredFields ==
  {"fullName", "birthDate", "maritalStatus", "phone", "email", "cep", "street",
   "neighborhood", "city", "state", "parish", "community", "role", "joinDate"}

\* !formState[field]
Falsy(record, field) ==
  \/ field \notin DOMAIN record
  \/ IF field = "email" THEN record[field] = <<>> ELSE record[field] = ""

\* /\S+@\S+\.\S+/.test(email)
EmailMatches(email) ==
  \E at, dot \in 1..Len(email) :
    /\ at > 1
    /\ email[at - 1] # " "
    /\ email[at] = "@"
    /\ dot > at + 1
    /\ \A k \in (at + 1)..(dot - 1) : email[k] # " "
    /\ email[dot] = "."
    /\ dot < Len(email)
    /\ email[dot + 1] # " "

\* validate: newErrors, the mapping from field to message.
validate(record) ==
  LET missing == {field \in requiredFields : Falsy(record, field)}
      spouse == IF record.maritalStatus = CASADO /\ Falsy(record, "spouseName")
                  THEN {"spouseName"} ELSE {}
      email == IF ~Falsy(record, "email") /\ ~EmailMatches(record.email)
                 THEN {"email"} ELSE {}
  IN  [field \in missing \cup spouse \cup email |->
         IF field \in email THEN MsgEmailInvalid
         ELSE IF field \in spouse THEN MsgSpouseRequired
         ELSE MsgFieldRequired]

\* useEffect[memberToEdit]
ValidatedFormInit(memberToEdit) ==
  /\ formState = (IF memberToEdit = Null THEN initialState ELSE memberToEdit)
  /\ errors = NoErrors
  /\ onSaveArg = Null

\* handleChange of the validated form: a marital status other than CASADO
\* empties the spouse name, and the changed field's error goes.
Validated_handleChange(name, value) ==
  /\ formState' =
       LET newState == [formState EXCEPT ![name] = value]
       IN  IF name = "maritalStatus" /\ value # CASADO
             THEN [newState EXCEPT !.spouseName = ""]
             ELSE newState
  /\ errors' = [field \in DOMAIN errors \ {name} |-> errors[field]]
  /\ UNCHANGED << appVars, memberFormVars, onSaveArg >>

\* handleSubmit of the validated form: validate sets errors, and onSave is
\* called when there are none.
Validated_handleSubmit ==
  /\ errors' = validate(formState)
  /\ onSaveArg' = IF DOMAIN validate(formState) = {} THEN formState ELSE onSaveArg
  /\ UNCHANGED << appVars, memberFormVars, formState >>

\* ---------------------------------------------------------------------
Failures == {NoErr} \cup StoreErrors

\* The day every record of the initial table was born on.
SessionDates == {1}

\* The application with every handler, driven by the smallest inputs that
\* log both initial users in, register one more and edit a login, against
\* a store whose calls return.  What the form submits is drawn from
\* FormInputs; the form's own state is left alone.
Next ==
  \/ \E fail \in {NoErr} \cup ConnectionErrors : CheckDbResponse(fail) /\ UNCHANGED otherVars
  \/ \E login \in SessionLogins, birthDate \in SessionDates :
       handleLogin(login, birthDate) /\ UNCHANGED otherVars
  \/ \E req \in Pending("login"), out \in LoginOutcomes : LoginResponse(req, out) /\ UNCHANGED otherVars
  \/ handleLogout /\ UNCHANGED otherVars
  \/ \E agentData \in RegisterInputs(SessionLogins, SessionDates) :
       handleRegister(agentData) /\ UNCHANGED otherVars
  \/ \E req \in Pending("insert"), fail \in {NoErr} : RegisterResponse(req, fail) /\ UNCHANGED otherVars
  \/ RegisterErrorTimeout /\ UNCHANGED otherVars
  \/ \E req \in Pending("list"), fail \in {NoErr} : ListResponse(req, fail) /\ UNCHANGED otherVars
  \/ \E agentData \in FormInputs(FormLogins, SessionDates, {}) : handleSaveAgent(agentData) /\ UNCHANGED otherVars
  \/ \E req \in Pending("upsert"), fail \in {NoErr} : SaveResponse(req, fail) /\ UNCHANGED otherVars
  \/ \E id \in 1..MaxId, confirmed \in BOOLEAN : handleDeleteAgent(id, confirmed) /\ UNCHANGED otherVars
  \/ \E req \in Pending("delete"), fail \in {NoErr} : DeleteResponse(req, fail) /\ UNCHANGED otherVars
  \/ \E id \in 1..MaxId : handleEditAgent(id) /\ UNCHANGED otherVars
  \/ handleAddNew /\ UNCHANGED otherVars
  \/ handleCancel /\ UNCHANGED otherVars
  \/ \E view \in {"LIST", "FORM", "REPORTS", "ABOUT"} : setCurrentView(view) /\ UNCHANGED otherVars
  \/ handleConfigSave /\ UNCHANGED otherVars

Spec == Init /\ [][Next]_vars

\* The login screen alone: a session can only log out, and the login and
\* registration handlers are driven by every login and day of the model.
NextAuth ==
  \/ \E fail \in {NoErr} \cup ConnectionErrors : CheckDbResponse(fail) /\ UNCHANGED otherVars
  \/ \E login \in LoginInputs, birthDate \in Dates : handleLogin(login, birthDate) /\ UNCHANGED otherVars
  \/ \E req \in Pending("login"), out \in LoginOutcomes : LoginResponse(req, out) /\ UNCHANGED otherVars
  \/ handleLogout /\ UNCHANGED otherVars
  \/ \E agentData \in RegisterInputs(LoginInputs, Dates) : handleRegister(agentData) /\ UNCHANGED otherVars
  \/ \E req \in Pending("insert"), fail \in Failures : RegisterResponse(req, fail) /\ UNCHANGED otherVars
  \/ RegisterErrorTimeout /\ UNCHANGED otherVars
  \/ \E req \in Pending("list"), fail \in Failures : ListResponse(req, fail) /\ UNCHANGED otherVars
  \/ handleConfigSave /\ UNCHANGED otherVars

SpecAuth == Init /\ [][NextAuth]_vars

\* The same, against a table that was created without the unique key on
\* login.
InitNoKey ==
  /\ uniqueKey = FALSE
  /\ store = InitialStore
  /\ nextId = 3
  /\ ClientInit
  /\ FormInit

SpecNoKey == InitNoKey /\ [][NextAuth]_vars

\* ---------------------------------------------------------------------
\* The table with every column: the coordinator is single and has no
\* vehicle, the agent is married and has one.  The rows are as the
\* application writes them: the login in upper case, the phone and the
\* postal code masked, an empty optional column null.
Coordinator ==
  [emptyAgent EXCEPT
     !.id = 1, !.role = COORDENADOR, !.login = << "A" >>, !.birthDate = 1,
     !.fullName = "Ana", !.phone = formatPhone(<< "1", "1", "9" >>),
     !.email = "ana@x.y", !.cep = formatCEP(<< "0", "1", "3", "1", "0", "9", "3", "0" >>),
     !.street = "Rua A", !.neighborhood = "Centro", !.city = "Sao Paulo",
     !.state = "SP", !.parish = "Matriz", !.community = "Sul",
     !.photo = DbNull, !.spouseName = DbNull, !.weddingDate = DbNull,
     !.vehicleModel = DbNull, !.notes = DbNull]

Agent ==
  [emptyAgent EXCEPT
     !.id = 2, !.role = AGENTE, !.login = << "B" >>, !.birthDate = 1,
     !.fullName = "Bia", !.phone = formatPhone(<< "2", "2", "8" >>),
     !.email = "bia@x.y", !.cep = formatCEP(<< "0", "1", "3", "1", "0", "9", "3", "0" >>),
     !.street = "Rua B", !.neighborhood = "Norte", !.city = "Sao Paulo",
     !.state = "SP", !.parish = "Matriz", !.community = "Sul",
     !.maritalStatus = CASADO, !.spouseName = "Rui", !.weddingDate = "2001-05-05",
     !.hasVehicle = TRUE, !.vehicleModel = "Uno",
     !.photo = "data:image", !.notes = "catequista"]

FullStore == {Coordinator, Agent}

InitForm ==
  /\ uniqueKey = TRUE
  /\ store = FullStore
  /\ nextId = 3
  /\ ClientInit
  /\ FormInit

\* The coordinator's session with the form: the coordinator logs in, opens
\* a record, changes its login or its sector and saves.
EditedLogins == { << "a" >> }

NextEdit ==
  \/ CheckDbResponse(NoErr) /\ ComponentsRender /\ UNCHANGED errorLog
  \/ \E login \in { << "a" >> }, birthDate \in SessionDates :
       handleLogin(login, birthDate) /\ ComponentsRender /\ UNCHANGED errorLog
  \/ \E req \in Pending("login") :
       LoginResponse(req, [channel |-> "data", err |-> NoErr]) /\ ComponentsRender /\ UNCHANGED errorLog
  \/ \E req \in Pending("list") : ListResponse(req, NoErr) /\ ComponentsRender /\ UNCHANGED errorLog
  \/ \E id \in 1..MaxId : handleEditAgent(id) /\ ComponentsRender /\ UNCHANGED errorLog
  \/ \E value \in EditedLogins : handleChange("login", value)
  \/ \E value \in Sectors : handleChange("sector", value)
  \/ handleSubmit /\ UNCHANGED errorLog
  \/ \E req \in Pending("upsert") : SaveResponse(req, NoErr) /\ ComponentsRender /\ UNCHANGED errorLog
  \/ handleCancel /\ ComponentsRender /\ UNCHANGED errorLog

SpecEdit == InitForm /\ [][NextEdit]_vars

\* The coordinator's session with the form again: the coordinator opens a
\* record, selects a marital status, checks or unchecks the vehicle box
\* and saves.
NextProfile ==
  \/ CheckDbResponse(NoErr) /\ ComponentsRender /\ UNCHANGED errorLog
  \/ \E login \in { << "a" >> }, birthDate \in SessionDates :
       handleLogin(login, birthDate) /\ ComponentsRender /\ UNCHANGED errorLog
  \/ \E req \in Pending("login") :
       LoginResponse(req, [channel |-> "data", err |-> NoErr]) /\ ComponentsRender /\ UNCHANGED errorLog
  \/ \E req \in Pending("list") : ListResponse(req, NoErr) /\ ComponentsRender /\ UNCHANGED errorLog
  \/ \E id \in 1..MaxId : handleEditAgent(id) /\ ComponentsRender /\ UNCHANGED errorLog
  \/ \E value \in {SOLTEIRO, CASADO} : handleChange("maritalStatus", value)
  \/ \E value \in BOOLEAN : handleChange("hasVehicle", value)
  \/ handleSubmit /\ UNCHANGED errorLog
  \/ \E req \in Pending("upsert") : SaveResponse(req, NoErr) /\ ComponentsRender /\ UNCHANGED errorLog
  \/ handleCancel /\ ComponentsRender /\ UNCHANGED errorLog

SpecProfile == InitForm /\ [][NextProfile]_vars

\* The login screen with the registration form: a newcomer types into the
\* inputs the browser requires and submits.
RegisterLogins == { << "a" >>, << "c" >> }

NextRegister ==
  \/ CheckDbResponse(NoErr) /\ ComponentsRender /\ UNCHANGED errorLog
  \/ \E value \in BOOLEAN : setIsRegistering(value)
  \/ \E value \in { "Caio" } : handleChange("fullName", value)
  \/ \E value \in RegisterLogins : handleChange("login", value)
  \/ \E value \in SessionDates : handleChange("birthDate", value)
  \/ \E value \in { << "3", "3", "7" >> } : handleChange("phone", value)
  \/ \E value \in { "caio@x.y" } : handleChange("email", value)
  \/ handleSubmit /\ UNCHANGED errorLog
  \/ \E req \in Pending("insert") : RegisterResponse(req, NoErr) /\ ComponentsRender /\ UNCHANGED errorLog
  \/ RegisterErrorTimeout /\ ComponentsRender /\ UNCHANGED errorLog
  \/ \E req \in Pending("login") :
       LoginResponse(req, [channel |-> "data", err |-> NoErr]) /\ ComponentsRender /\ UNCHANGED errorLog

SpecRegister == InitForm /\ [][NextRegister]_vars

\* What an input can hold after a key, a backspace or a paste: the text
\* shown with a character more, with its last character gone, or a pasted
\* text; the browser lets no more than maxLength characters in.
PhoneMaxLength == 15
CepMaxLength == 9

Typed(shown, keys, pastes, maxLength) ==
  {v \in {Append(shown, key) : key \in keys}
            \cup (IF shown = <<>> THEN {} ELSE {SubSeq(shown, 1, Len(shown) - 1)})
            \cup pastes :
     Len(v) <= maxLength}

PhoneKeys == {"1", "2", "a"}

PhonePastes ==
  { <<>>,
    << "a", "b" >>,
    << " " >>,
    << "1", "1", "9", "8", "7", "6", "5", "4", "3", "2", "1", "0", "9" >>,
    << "(", "1", "1", ")", " ", "9", "8", "7", "6", "5", "-", "4", "3", "2", "1" >>,
    << "1", "1", " ", "9", "8", "7", "6", "-", "5", "4", "3", "2" >>,
    << "+", "5", "5", "1", "1", "9", "8" >> }

PhoneTyped == Typed(formAgent.phone, PhoneKeys, PhonePastes, PhoneMaxLength)

\* The registration form with its phone input.
NextPhone ==
  \/ CheckDbResponse(NoErr) /\ ComponentsRender /\ UNCHANGED errorLog
  \/ \E value \in BOOLEAN : setIsRegistering(value)
  \/ \E value \in PhoneTyped : handleChange("phone", value)

SpecPhone == InitForm /\ [][NextPhone]_vars

CepKeys == {"0", "3", "x"}

CepPastes ==
  { <<>>,
    << "a", "b", "c", "1", "2", "3" >>,
    << "a", "b", "c" >>,
    << "0", "1", "3", "1", "0", "9", "3", "0" >>,
    << "0", "1", "3", "1", "0", "-", "9", "3", "0" >>,
    << "0", "1", ".", "3", "1", "0", "9", "3", "0" >>,
    << "0", "1", "3", "1", "0", "9", "3", "0", "7" >>,
    << "-", "1", "-", "2" >> }

CepTyped == Typed(formAgent.cep, CepKeys, CepPastes, CepMaxLength)

\* The registration form with its postal code input.
NextCep ==
  \/ CheckDbResponse(NoErr) /\ ComponentsRender /\ UNCHANGED errorLog
  \/ \E value \in BOOLEAN : setIsRegistering(value)
  \/ \E value \in CepTyped : handleChange("cep", value)

SpecCep == InitForm /\ [][NextCep]_vars

\* The coordinator's form with the postal lookup: the coordinator opens a
\* record, types a postal code of eight or of three digits, a street or
\* a note, leaves the postal code input, and the lookups answer.
LookupCeps ==
  { << "0", "4", "0", "0", "1", "0", "0", "0" >>, << "0", "4", "0" >> }

FoundAddresses == { Address("Rua C", "Sul", "Santos", "SP") }

NextLookup ==
  \/ CheckDbResponse(NoErr) /\ ComponentsRender /\ UNCHANGED errorLog
  \/ \E login \in { << "a" >> }, birthDate \in SessionDates :
       handleLogin(login, birthDate) /\ ComponentsRender /\ UNCHANGED errorLog
  \/ \E req \in Pending("login") :
       LoginResponse(req, [channel |-> "data", err |-> NoErr]) /\ ComponentsRender /\ UNCHANGED errorLog
  \/ \E req \in Pending("list") : ListResponse(req, NoErr) /\ ComponentsRender /\ UNCHANGED errorLog
  \/ \E id \in 1..MaxId : handleEditAgent(id) /\ ComponentsRender /\ UNCHANGED errorLog
  \/ handleCancel /\ ComponentsRender /\ UNCHANGED errorLog
  \/ \E value \in LookupCeps : handleChange("cep", value)
  \/ \E value \in { "Rua D" } : handleChange("street", value)
  \/ \E value \in { "mudou" } : handleChange("notes", value)
  \/ handleCepBlur
  \/ \E req \in BagToSet(cepLookups), out \in CepOutcomes(FoundAddresses) :
       CepResponse(req, out)

SpecLookup == InitForm /\ [][NextLookup]_vars

\* The validating form on its own, mounted for a new member or for a
\* married member with every field filled: the user changes the marital
\* status, the spouse name, the name, the parish and the e-mail, and
\* submits.
MarriedMember ==
  [id |-> 2, fullName |-> "Bia", photo |-> "", birthDate |-> "1980-01-01",
   maritalStatus |-> CASADO, spouseName |-> "Rui", phone |-> "(22) 8",
   email |-> << "b", "@", "x", ".", "y" >>, cep |-> "01310-930",
   street |-> "Rua B", neighborhood |-> "Norte", city |-> "Sao Paulo",
   state |-> "SP", parish |-> "Matriz", community |-> "Sul",
   role |-> "Agente", joinDate |-> "2020-01-01", notes |-> ""]

MembersToEdit == {Null, MarriedMember}

TypedEmails == { <<>>, << "b", "@", "x", ".", "y" >>, << "b", "@", "x" >> }

InitValidate ==
  /\ uniqueKey = TRUE
  /\ store = InitialStore
  /\ nextId = 3
  /\ ClientInit
  /\ isRegistering = FALSE
  /\ FormUnmounted
  /\ \E memberToEdit \in MembersToEdit : ValidatedFormInit(memberToEdit)

NextValidate ==
  \/ \E value \in {SOLTEIRO, CASADO} : Validated_handleChange("maritalStatus", value)
  \/ \E value \in {"", "Rui"} : Validated_handleChange("spouseName", value)
  \/ \E value \in {"", "Bia"} : Validated_handleChange("fullName", value)
  \/ \E value \in {"", "Matriz"} : Validated_handleChange("parish", value)
  \/ \E value \in TypedEmails : Validated_handleChange("email", value)
  \/ Validated_handleSubmit

SpecValidate == InitValidate /\ [][NextValidate]_vars

\* ---------------------------------------------------------------------
\* The sessions of the two initial users with the member form, the list
\* and the store's answers to save and delete: a coordinator can pick a
\* role in the form, an upsert can fail in transport, and no one
\* registers.
NextSave ==
  \/ CheckDbResponse(NoErr) /\ UNCHANGED otherVars
  \/ \E login \in SessionLogins, birthDate \in SessionDates :
       handleLogin(login, birthDate) /\ UNCHANGED otherVars
  \/ \E req \in Pending("login") :
       LoginResponse(req, [channel |-> "data", err |-> NoErr]) /\ UNCHANGED otherVars
  \/ handleLogout /\ UNCHANGED otherVars
  \/ \E req \in Pending("list") : ListResponse(req, NoErr) /\ UNCHANGED otherVars
  \/ \E agentData \in FormInputs({}, SessionDates, Roles) :
       handleSaveAgent(agentData) /\ UNCHANGED otherVars
  \/ \E req \in Pending("upsert"), fail \in Failures : SaveResponse(req, fail) /\ UNCHANGED otherVars
  \/ \E id \in 1..MaxId : handleDeleteAgent(id, TRUE) /\ UNCHANGED otherVars
  \/ \E req \in Pending("delete") : DeleteResponse(req, NoErr) /\ UNCHANGED otherVars
  \/ \E id \in 1..MaxId : handleEditAgent(id) /\ UNCHANGED otherVars
  \/ handleCancel /\ UNCHANGED otherVars
  \/ \E view \in {"LIST", "FORM"} : setCurrentView(view) /\ UNCHANGED otherVars

SpecSave == Init /\ [][NextSave]_vars

\* ---------------------------------------------------------------------
\* The login screen against a store whose every call can fail in
\* transport, with an expired credential or with a missing table.
ServiceFailures == {NoErr} \cup ConnectionErrors

ServiceOutcomes ==
  {[channel |-> "data", err |-> NoErr]}
    \cup {[channel |-> c, err |-> e] : c \in {"error", "throw"}, e \in ConnectionErrors}

NextConfig ==
  \/ \E fail \in ServiceFailures : CheckDbResponse(fail) /\ UNCHANGED otherVars
  \/ \E login \in SessionLogins, birthDate \in SessionDates :
       handleLogin(login, birthDate) /\ UNCHANGED otherVars
  \/ \E req \in Pending("login"), out \in ServiceOutcomes :
       LoginResponse(req, out) /\ UNCHANGED otherVars
  \/ handleLogout /\ UNCHANGED otherVars
  \/ \E agentData \in RegisterInputs({ << "c" >> }, SessionDates) :
       handleRegister(agentData) /\ UNCHANGED otherVars
  \/ \E req \in Pending("insert"), fail \in ServiceFailures :
       RegisterResponse(req, fail) /\ UNCHANGED otherVars
  \/ RegisterErrorTimeout /\ UNCHANGED otherVars
  \/ \E req \in Pending("list"), fail \in ServiceFailures :
       ListResponse(req, fail) /\ UNCHANGED otherVars
  \/ handleConfigSave /\ UNCHANGED otherVars

SpecConfig == Init /\ [][NextConfig]_vars

\* ---------------------------------------------------------------------
\* The handlers with the error log: each step sets the log to what the
\* handler's calls of logAndSetError make of it, and the page reload of
\* handleConfigSave starts it empty.  Every store call can fail.
LogLogins == { << "a" >>, << " ", "b" >>, << " " >> }

NextLog ==
  \/ \E fail \in ServiceFailures :
       CheckDbResponse(fail) /\ setErrorLog(CheckDbResponseLog(fail)) /\ UNCHANGED formVars
  \/ \E login \in LogLogins, birthDate \in SessionDates :
       /\ handleLogin(login, birthDate)
       /\ setErrorLog(handleLoginLog(errorLog, login, birthDate))
       /\ UNCHANGED formVars
  \/ \E req \in Pending("login"), out \in LoginOutcomes :
       LoginResponse(req, out) /\ setErrorLog(LoginResponseLog(req, out)) /\ UNCHANGED formVars
  \/ handleLogout /\ UNCHANGED otherVars
  \/ \E agentData \in RegisterInputs({ << "c" >> }, SessionDates) :
       handleRegister(agentData) /\ UNCHANGED otherVars
  \/ \E req \in Pending("insert"), fail \in StoreErrors :
       RegisterResponse(req, fail) /\ setErrorLog(RegisterResponseLog(req, fail)) /\ UNCHANGED formVars
  \/ RegisterErrorTimeout /\ UNCHANGED otherVars
  \/ \E req \in Pending("list"), fail \in Failures :
       ListResponse(req, fail) /\ setErrorLog(ListResponseLog(fail)) /\ UNCHANGED formVars
  \/ \E agentData \in FormInputs({}, SessionDates, {}) :
       /\ handleSaveAgent(agentData)
       /\ setErrorLog(handleSaveAgentLog(agentData))
       /\ UNCHANGED formVars
  \/ \E req \in Pending("upsert"), fail \in Failures :
       SaveResponse(req, fail) /\ setErrorLog(SaveResponseLog(req, fail)) /\ UNCHANGED formVars
  \/ \E id \in 1..MaxId :
       /\ handleDeleteAgent(id, TRUE)
       /\ setErrorLog(handleDeleteAgentLog)
       /\ UNCHANGED formVars
  \/ \E req \in Pending("delete"), fail \in Failures :
       DeleteResponse(req, fail) /\ setErrorLog(DeleteResponseLog(fail)) /\ UNCHANGED formVars
  \/ \E id \in 1..MaxId : handleEditAgent(id) /\ UNCHANGED otherVars
  \/ \E view \in {"FORM"} : setCurrentView(view) /\ UNCHANGED otherVars
  \/ handleConfigSave /\ setErrorLog(<< >>) /\ UNCHANGED formVars

SpecLog == Init /\ [][NextLog]_vars

\* ---------------------------------------------------------------------
\* Properties.

\* The store rows whose login and birth date are those of a login request.
Hits(req) ==
  {r \in store : r.login = req.data.login /\ r.birthDate = req.data.birthDate}

RowsReturned == [channel |-> "data", err |-> NoErr]

\* The number of login lookups pending does not grow in this step.
NoLoginIssued ==
  \A r \in BagToSet(inflight') :
    r.kind = "login" => CopiesIn(r, inflight') <= CopiesIn(r, inflight)

\* C1: an AGENTE session that calls delete on any id, or save on a record
\* whose id is not the session's (a record without id included), gets the
\* permission error and nothing else happens: the store is as it was and no
\* request joins the pending ones.
C1_AgenteRejectedBeforeStore ==
  [][ /\ \A agentData \in FormInputs(FormLogins, SessionDates, {}) :
           ( /\ RoleOf(loggedInAgent) = AGENTE
             /\ agentData.id # loggedInAgent.id
             /\ handleSaveAgent(agentData) )
             => /\ error' = MsgNoPermEdit
                /\ UNCHANGED << store, nextId, inflight >>
      /\ \A id \in 1..MaxId, confirmed \in BOOLEAN :
           ( /\ RoleOf(loggedInAgent) = AGENTE
             /\ handleDeleteAgent(id, confirmed) )
             => /\ error' = MsgNoPermDelete
                /\ UNCHANGED << store, nextId, inflight >> ]_vars

\* An AGENTE whose save of a record without id has just been refused.
C1_Witness ==
  /\ RoleOf(loggedInAgent) = AGENTE
  /\ agentToEdit = Null
  /\ currentView = "FORM"
  /\ error = MsgNoPermEdit
  /\ store = InitialStore

\* C2: when the rows returned to a login are exactly one record, that
\* record becomes the session identity.
C2_OneMatchAuthenticates ==
  [][ \A req \in Pending("login") :
        (Cardinality(Hits(req)) = 1 /\ LoginResponse(req, RowsReturned))
          => loggedInAgent' \in Hits(req) ]_vars

\* A session whose identity is a stored record, no lookup pending.
C2_Witness ==
  /\ loggedInAgent \in store
  /\ Pending("login") = {}
  /\ loginError = NullMsg

\* C3: when no record matches a login, the invalid-credentials message is
\* reported as login error and the session identity is left as it was.
C3_NoMatchInvalidCredentials ==
  [][ \A req \in Pending("login") :
        (Hits(req) = {} /\ LoginResponse(req, RowsReturned))
          => /\ loginError' = MsgInvalidCredentials
             /\ UNCHANGED loggedInAgent ]_vars

\* Nobody logged in, and the invalid-credentials message on the screen.
C3_Witness ==
  /\ loggedInAgent = Null
  /\ loginError = MsgInvalidCredentials

\* C4: when two or more records match a login, the message reported is the
\* one for several records, which is not the invalid-credentials message,
\* and the session identity is left as it was.
C4_SeveralMatchesIntegrityError ==
  [][ \A req \in Pending("login") :
        (Cardinality(Hits(req)) >= 2 /\ LoginResponse(req, RowsReturned))
          => /\ loginError' = MsgMultiple
             /\ loginError' # MsgInvalidCredentials
             /\ UNCHANGED loggedInAgent ]_vars

\* Two records with one login and birth date, and the message for it.
C4_Witness ==
  /\ loggedInAgent = Null
  /\ loginError = MsgMultiple
  /\ \E r1, r2 \in store :
       r1.id # r2.id /\ r1.login = r2.login /\ r1.birthDate = r2.birthDate

\* C5 as stated: whenever the login lookup fails, the login error reported
\* is the store's own error message, and no session is set.
C5_StoreErrorPassedThrough ==
  [][ \A req \in Pending("login"), out \in LoginOutcomes :
        (out.channel # "data" /\ LoginResponse(req, out))
          => /\ loginError' = out.err.message
             /\ UNCHANGED loggedInAgent ]_vars

\* C5, amended: an error object returned by the lookup is reported as the
\* fixed generic login message, an exception thrown by the lookup call is
\* reported with its own message, and neither sets a session.
C5_ReturnedErrorGenericThrownPassed ==
  [][ \A req \in Pending("login"), out \in LoginOutcomes :
        (out.channel # "data" /\ LoginResponse(req, out))
          => /\ loginError' = IF out.channel = "error" THEN MsgLoginGeneric
                              ELSE out.err.message
             /\ UNCHANGED loggedInAgent ]_vars

\* Nobody logged in, and the generic login message on the screen.
C5_Witness ==
  /\ loggedInAgent = Null
  /\ loginError = MsgLoginGeneric
  /\ error = MsgLoginGeneric

\* C6: while an AGENTE is logged in, the loaded list holds no record but
\* the session's own.
C6_AgenteListIsOwnRecord ==
  RoleOf(loggedInAgent) = AGENTE
    => \A a \in agents : a.id = loggedInAgent.id

\* C7: registering a login that a stored record already has reports the
\* login-in-use message, adds no record, starts no login lookup and leaves
\* the session identity as it was.
C7_TakenLoginRefused ==
  [][ \A req \in Pending("insert") :
        ( /\ \E r \in store : r.login = toUpperCase(req.data.login)
          /\ RegisterResponse(req, NoErr) )
          => /\ error' = RegisterFailure(MsgLoginInUse)
             /\ UNCHANGED << store, nextId, loggedInAgent >>
             /\ NoLoginIssued ]_vars

\* The login-in-use message on the login screen, the table as it was.
C7_Witness ==
  /\ error = RegisterFailure(MsgLoginInUse)
  /\ loggedInAgent = Null
  /\ store = InitialStore

\* C8: a registration whose insert succeeds has a login lookup pending in
\* the same step, and when that lookup returns its rows the session
\* identity is the record just inserted.
C8_RegisterEndsAuthenticated ==
  [][ /\ \A req \in Pending("insert") :
           (RegisterResponse(req, NoErr) /\ store' # store)
             => \E l \in BagToSet(inflight') : l.kind = "login" /\ l.via = "register"
      /\ \A l \in Pending("login") :
           (l.via = "register" /\ LoginResponse(l, RowsReturned))
             => /\ loggedInAgent' \in store
                /\ loggedInAgent'.id = nextId - 1 ]_vars

\* C9: every record a registration adds to the store has role AGENTE,
\* whatever role the submitted record carries.
C9_RegisterForcesAgente ==
  [][ \A req \in Pending("insert"), fail \in Failures :
        RegisterResponse(req, fail)
          => \A r \in store' \ store : r.role = AGENTE ]_vars

\* A registered record in the store, its login lookup still pending.
C9_Witness ==
  /\ \E r \in store : r.id = nextId - 1 /\ r.id > 2 /\ r.role = AGENTE
  /\ \E l \in Pending("login") : l.via = "register"

\* C10: logout leaves no session identity and an empty loaded list.
C10_LogoutClearsSession ==
  [][ handleLogout => (loggedInAgent' = Null /\ agents' = {}) ]_vars

\* Logged out of a session that had the form open.
C10_Witness ==
  /\ loggedInAgent = Null
  /\ agents = {}
  /\ currentView = "FORM"

\* C11: when a coordinator's save of another agent's record carries that
\* record as it is stored but for a different sector, the save leaves the
\* store with that record's sector updated and with every other field of
\* it, and every other record, as before.
C11_SectorOnlySave ==
  [][\A req \in Pending("upsert") : \A old \in store :
       ( /\ req.user.role = COORDENADOR
         /\ old.id # req.user.id
         /\ req.data.sector # old.sector
         /\ req.data = [old EXCEPT !.sector = req.data.sector]
         /\ SaveResponse(req, NoErr) )
       => /\ \A r \in store' :
               r.id = old.id => r = [old EXCEPT !.sector = req.data.sector]
          /\ \E r \in store' : r.id = old.id
          /\ {r \in store' : r.id # old.id} = {r \in store : r.id # old.id}
    ]_vars

\* The coordinator has saved the agent's record with another sector.
C11_Witness ==
  /\ RoleOf(loggedInAgent) = COORDENADOR
  /\ [Agent EXCEPT !.sector = OTHER_SECTOR] \in store

\* C12: the response to a save whose upper-cased login is the login of
\* another stored record sets the "login already in use" error and leaves
\* the store as it was; and at every moment, after any registrations and
\* saves, no two stored records have the same login.
C12_TakenLoginSaveRefused ==
  /\ [][\A req \in Pending("upsert") :
          ( /\ \E r \in store : /\ r.id # req.data.id
                                /\ r.login = toUpperCase(req.data.login)
            /\ SaveResponse(req, NoErr) )
          => /\ error' = SaveFailure(MsgLoginInUse)
             /\ store' = store
       ]_vars
  /\ [](\A r1, r2 \in store : r1.login = r2.login => r1.id = r2.id)

\* A save has been refused for its login, after a registration added a
\* record.
C12_Witness ==
  /\ error = SaveFailure(MsgLoginInUse)
  /\ Cardinality(store) = 3

\* C13: every stored record whose marital status is not CASADO has no
\* spouse name and no wedding date.
C13_NoSpouseUnlessMarried ==
  \A r \in store :
    r.maritalStatus # CASADO => r.spouseName = DbNull /\ r.weddingDate = DbNull

\* C14: every stored record without a vehicle has no vehicle model.
C14_NoVehicleModelWithoutVehicle ==
  \A r \in store : ~r.hasVehicle => r.vehicleModel = DbNull

\* C15: a submit of the validating form leaves no error for spouseName or
\* weddingDate when the marital status is not CASADO, and leaves an error
\* for spouseName, and one for weddingDate, when the status is CASADO and
\* that field is empty.
C15_ValidateSpouseAndWedding ==
  [][Validated_handleSubmit =>
       /\ formState.maritalStatus # CASADO
            => {"spouseName", "weddingDate"} \cap DOMAIN errors' = {}
       /\ formState.maritalStatus = CASADO /\ Falsy(formState, "spouseName")
            => "spouseName" \in DOMAIN errors'
       /\ formState.maritalStatus = CASADO /\ Falsy(formState, "weddingDate")
            => "weddingDate" \in DOMAIN errors'
    ]_vars

\* The fields every record must have: name, birth date, phone, e-mail,
\* postal code, street, neighborhood, city, state, parish, community and
\* join date are filled (a marital status, a sector and a role are always
\* selected).
Complete(record) ==
  /\ record.fullName # ""
  /\ record.birthDate # NoDate
  /\ record.phone # <<>>
  /\ record.email # ""
  /\ record.cep # <<>>
  /\ record.street # ""
  /\ record.neighborhood # ""
  /\ record.city # ""
  /\ record.state # ""
  /\ record.parish # ""
  /\ record.community # ""
  /\ record.joinDate # ""

\* C16: a submit hands on only a record with every required field filled,
\* and no record with a required field empty is ever stored.
C16_OnlyCompleteRecordsSaved ==
  /\ [][handleSubmit => Complete(formAgent)]_vars
  /\ [](\A r \in store : Complete(r))

\* C17: whatever is typed or pasted into the phone input (nothing, no
\* digit, more than eleven digits), formatting the formatted text again
\* gives the same text.
C17_FormatPhoneIdempotent ==
  [][\A value \in PhoneTyped :
       handleChange("phone", value)
         => /\ formAgent'.phone = formatPhone(value)
            /\ formatPhone(formatPhone(value)) = formatPhone(value)
    ]_vars

\* The phone input shows eleven digits under the full mask.
C17_Witness ==
  /\ FormShown
  /\ Len(OnlyNums(formAgent.phone)) = 11
  /\ Len(formAgent.phone) = 15

\* The characters of a text that are the given character.
Count(text, char) == Cardinality({i \in 1..Len(text) : text[i] = char})

\* C18: the formatted postal code holds the first eight digits typed and
\* nothing else but one hyphen, which follows the fifth digit when there
\* are more than five; "01310930" gives "01310-930" and "abc123" gives
\* "123"; formatting the formatted text again gives the same text.
C18_FormatCepNormalizes ==
  [][\A value \in CepTyped :
       handleChange("cep", value)
         => LET out == formAgent'.cep
                digits == OnlyNums(value)
            IN  /\ OnlyNums(out) = Slice(digits, 0, 8)
                /\ Len(out) = Len(OnlyNums(out)) + Count(out, "-")
                /\ Count(out, "-") = (IF Len(digits) > 5 THEN 1 ELSE 0)
                /\ Len(digits) > 5 => out[6] = "-"
                /\ value = << "0", "1", "3", "1", "0", "9", "3", "0" >>
                     => out = << "0", "1", "3", "1", "0", "-", "9", "3", "0" >>
                /\ value = << "a", "b", "c", "1", "2", "3" >>
                     => out = << "1", "2", "3" >>
                /\ formatCEP(out) = out
    ]_vars

\* The postal code input shows eight digits around the hyphen.
C18_Witness ==
  /\ FormShown
  /\ formAgent.cep = << "0", "1", "3", "1", "0", "-", "9", "3", "0" >>

\* C19: when a lookup answers that it does not know the postal code, the
\* postal code gets the not-found error, street, neighborhood, city and
\* state become empty whatever they held, and every other field of the
\* form stays as it was.
C19_NotFoundClearsAddress ==
  [][\A req \in BagToSet(cepLookups) :
       CepResponse(req, [kind |-> "erro", data |-> NoAddress])
         => /\ cepError' = MsgCepNotFound
            /\ formAgent' = [formAgent EXCEPT !.street = "", !.neighborhood = "",
                                              !.city = "", !.state = ""]
    ]_vars

\* The form of the agent, whose address was filled, shows the not-found
\* error and an empty address.
C19_Witness ==
  /\ FormShown
  /\ formAgent.id = Agent.id
  /\ cepError = MsgCepNotFound
  /\ formAgent.street = "" /\ formAgent.neighborhood = ""
  /\ formAgent.city = "" /\ formAgent.state = ""
  /\ formAgent.fullName = Agent.fullName

\* C20: when a lookup fails in transport, by an exception or by a response
\* that is not OK, the postal code gets the lookup-failure error and
\* street, neighborhood, city and state, like every other field, keep
\* their values.
C20_FailureKeepsAddress ==
  [][\A req \in BagToSet(cepLookups) : \A kind \in {"notOk", "throw"} :
       CepResponse(req, [kind |-> kind, data |-> NoAddress])
         => /\ cepError' = MsgCepFailure
            /\ formAgent'.street = formAgent.street
            /\ formAgent'.neighborhood = formAgent.neighborhood
            /\ formAgent'.city = formAgent.city
            /\ formAgent'.state = formAgent.state
            /\ formAgent' = formAgent
    ]_vars

\* The form of the agent shows the lookup-failure error and the agent's
\* address.
C20_Witness ==
  /\ FormShown
  /\ formAgent.id = Agent.id
  /\ cepError = MsgCepFailure
  /\ formAgent.street = Agent.street /\ formAgent.neighborhood = Agent.neighborhood
  /\ formAgent.city = Agent.city /\ formAgent.state = Agent.state

\* C21: leaving the postal code input while its digits are not exactly
\* eight is a no-op: no lookup is issued, no error is set on the field and
\* no form field changes.
C21_ShortCepBlurIsNoOp ==
  [][(handleCepBlur /\ Len(OnlyNums(formAgent.cep)) # 8)
       => /\ cepLookups' = cepLookups
          /\ formAgent' = formAgent
          /\ isFetchingCep' = isFetchingCep
          /\ cepError' = cepError
    ]_vars

\* C22: postal code lookups in flight together are independent. While the
\* form stays shown, a blur on eight digits adds a lookup to the pending
\* ones and no step other than a lookup's own response removes one, so
\* neither is cancelled by the other or by the user's edits; each response
\* removes only its own lookup and writes its outcome over whatever the
\* address fields hold (the resolved address on success, empty fields on
\* not-found), so after both responses the fields hold the outcome of the
\* response that arrived last.
C22_LastLookupResponseWins ==
  [][/\ \A req \in BagToSet(cepLookups) : \A out \in CepOutcomes(FoundAddresses) :
          CepResponse(req, out)
            => /\ cepLookups' = cepLookups (-) SetToBag({req})
               /\ out.kind = "found"
                    => Address(formAgent'.street, formAgent'.neighborhood,
                               formAgent'.city, formAgent'.state) = out.data
               /\ out.kind = "erro"
                    => Address(formAgent'.street, formAgent'.neighborhood,
                               formAgent'.city, formAgent'.state) = NoAddress
     /\ (handleCepBlur /\ Len(OnlyNums(formAgent.cep)) = 8)
          => cepLookups' = cepLookups (+) SetToBag({[cep |-> OnlyNums(formAgent.cep)]})
     /\ (FormShown /\ FormShown'
           /\ ~ \E req \in BagToSet(cepLookups) : \E out \in CepOutcomes(FoundAddresses) :
                  CepResponse(req, out))
          => \A req \in BagToSet(cepLookups) :
               CopiesIn(req, cepLookups') >= CopiesIn(req, cepLookups)
    ]_vars

\* The not-found error of one lookup is still shown beside the address
\* that a later response resolved: the two lookups were in flight
\* together, the not-found response arrived first and the successful one
\* last.
C22_Witness ==
  /\ FormShown
  /\ cepLookups = EmptyBag
  /\ cepError = MsgCepNotFound
  /\ formAgent.street = "Rua C" /\ formAgent.neighborhood = "Sul"
  /\ formAgent.city = "Santos" /\ formAgent.state = "SP"

\* C30: while the form is shown, the lookup-in-progress flag is true in
\* every state in which at least one postal code lookup is in flight and
\* false once all lookups have completed.
C30_FetchingFlagTracksLookups ==
  FormShown => (isFetchingCep <=> cepLookups # EmptyBag)

\* C26: in every state in which an AGENTE session is shown the form view,
\* the record under edit is none or the session's own record, so a record
\* that an earlier coordinator session selected is never presented to an
\* AGENTE session that follows it.
C26_AgenteFormShowsOwnRecord ==
  (ShowsForm /\ RoleOf(loggedInAgent) = AGENTE)
    => (agentToEdit = Null \/ agentToEdit.id = loggedInAgent.id)

\* C28: in every Authenticated state the session identity's id is the id
\* of a store record, and no client state (session identity, loaded list,
\* record under edit) refers to a record that is not in the store, once
\* every store call has returned.
C28_ClientRefersToStoredRecords ==
  (Screen = "main" /\ inflight = EmptyBag)
    => /\ \E r \in store : r.id = loggedInAgent.id
       /\ \A m \in agents : \E r \in store : r.id = m.id
       /\ agentToEdit # Null => \E r \in store : r.id = agentToEdit.id

\* A step asks the store for the list: a list request joins the pending
\* continuations.
ListRequested ==
  \E r \in BagToSet(inflight') :
    r.kind = "list" /\ CopiesIn(r, inflight') > CopiesIn(r, inflight)

\* The store accepts the upsert of a pending save.
UpsertSucceeds(req) == WriteError(DataToUpsert(req.data)) = NoErr

\* C24 (as the code has it): after a successful upsert of a record that is
\* not the saving session's own, the list is asked of the store again and
\* the loaded list is not patched; after a successful upsert of the saving
\* session's own record, the submitted copy becomes the session identity;
\* after a successful delete, the record is removed from the loaded list
\* locally and the store is not asked again.
C24_UpsertReloadsDeletePatches ==
  [][/\ \A req \in Pending("upsert") :
          (SaveResponse(req, NoErr) /\ UpsertSucceeds(req))
            => IF req.user.id = req.data.id
                 THEN loggedInAgent' = req.data
                 ELSE ListRequested /\ agents' = agents
     /\ \A req \in Pending("delete") :
          DeleteResponse(req, NoErr)
            => /\ ~ ListRequested
               /\ agents' = {m \in agents : m.id # req.data.id}
    ]_vars

\* A coordinator's session after the agent's record was deleted: the
\* record is in neither the store nor the loaded list, and nothing is
\* pending.
C24_Witness ==
  /\ Screen = "main"
  /\ loggedInAgent.role = COORDENADOR
  /\ inflight = EmptyBag
  /\ store = {r \in InitialStore : r.id = loggedInAgent.id}
  /\ agents = store

\* C24 (as stated): after every successful upsert or delete of a record
\* that is not the session's own, the loaded list is reloaded from the
\* store; after a successful upsert of the session's own record, the
\* submitted copy becomes the session identity.
C24_MutationReloadsList ==
  [][/\ \A req \in Pending("upsert") :
          (SaveResponse(req, NoErr) /\ UpsertSucceeds(req))
            => IF req.user.id = req.data.id
                 THEN loggedInAgent' = req.data
                 ELSE ListRequested
     /\ \A req \in Pending("delete") :
          (DeleteResponse(req, NoErr) /\ req.data.id # loggedInAgent.id)
            => ListRequested
    ]_vars

\* C29: every save attempt that reaches the store ends, when the upsert
\* succeeds and when it fails alike, with the view set to the list and no
\* record under edit: the step that answers the upsert either sets both or,
\* for a coordinator's save of another record, goes on to reload the list,
\* and the answer to that reload sets both.  A save refused for lack of
\* permission leaves view, record under edit, loaded list, store and
\* pending calls unchanged.
C29_SaveEndsOnListOrChangesNothing ==
  [][/\ \A req \in Pending("upsert") : \A fail \in Failures :
          SaveResponse(req, fail)
            => \/ currentView' = "LIST" /\ agentToEdit' = Null
               \/ \E r \in BagToSet(inflight') :
                    /\ r.kind = "list" /\ r.via = "save"
                    /\ CopiesIn(r, inflight') > CopiesIn(r, inflight)
     /\ \A req \in Pending("list") : \A fail \in Failures :
          (ListResponse(req, fail) /\ req.via = "save")
            => currentView' = "LIST" /\ agentToEdit' = Null
     /\ \A agentData \in FormInputs({}, SessionDates, Roles) :
          (handleSaveAgent(agentData) /\ SaveForbidden(loggedInAgent, agentData))
            => UNCHANGED << currentView, agentToEdit, agents, store, inflight >>
    ]_vars

\* A save that the store refused has ended: the session is on the list,
\* no record is under edit and the failure is reported.
C29_Witness ==
  /\ Screen = "main"
  /\ currentView = "LIST"
  /\ agentToEdit = Null
  /\ error = SaveFailure(WriteErrorMessage(ErrNetwork))

\* C27: no operation of an AGENTE session changes the role of a store
\* record, and a successful save of the AGENTE's own record leaves that
\* record with the role AGENTE in the store.
C27_AgenteSaveKeepsRoles ==
  [][\A req \in Pending("upsert") : \A fail \in Failures :
       (SaveResponse(req, fail) /\ req.user.role = AGENTE)
         => /\ \A before \in store : \A after \in store' :
                 after.id = before.id => after.role = before.role
            /\ (fail = NoErr /\ UpsertSucceeds(req))
                 => \E after \in store' :
                      after.id = req.user.id /\ after.role = AGENTE
    ]_vars

\* C25: whenever a store call fails with a missing-table or an
\* invalid-credential error, the configuration flow is what the user is
\* shown next, and whenever it fails with any other error the
\* configuration flow is not entered and the failure is reported in the
\* error message.
C25_ServiceMisconfigurationOpensConfig ==
  [][/\ \A fail \in ConnectionErrors :
          CheckDbResponse(fail)
            => IF isAuthError(fail) \/ isTableError(fail)
                 THEN Screen' = "config"
                 ELSE Screen' # "config" /\ error' # NullMsg
     /\ \A req \in Pending("login") : \A out \in ServiceOutcomes :
          (LoginResponse(req, out) /\ out.err # NoErr)
            => IF isAuthError(out.err) \/ isTableError(out.err)
                 THEN Screen' = "config"
                 ELSE Screen' # "config" /\ error' # NullMsg
     /\ \A req \in Pending("insert") : \A fail \in ConnectionErrors :
          RegisterResponse(req, fail)
            => IF isAuthError(fail) \/ isTableError(fail)
                 THEN Screen' = "config"
                 ELSE Screen' # "config" /\ error' # NullMsg
     /\ \A req \in Pending("list") : \A fail \in ConnectionErrors :
          ListResponse(req, fail)
            => IF isAuthError(fail) \/ isTableError(fail)
                 THEN Screen' = "config"
                 ELSE Screen' # "config" /\ error' # NullMsg
    ]_vars

\* a is a prefix of b.
IsPrefix(a, b) == Len(a) <= Len(b) /\ SubSeq(b, 1, Len(a)) = a

\* A step reports a failure: the log grows, and its last entry carries a
\* context and the message that the step leaves in the user-visible error.
Reported ==
  /\ Len(errorLog') > Len(errorLog)
  /\ LET entry == errorLog'[Len(errorLog')]
     IN  /\ entry.context # ""
         /\ entry.message # NullMsg
         /\ error' = entry.message

\* C23 (as the code has it): in every step other than the page reload of
\* handleConfigSave, the log before the step is a prefix of the log after
\* it, logout and successful operations included; and every failure of the
\* connection check, of a login, a registration, a list load, a save or a
\* delete, a refusal for lack of permission included, appends at least one
\* entry with a context and leaves its message in the user-visible error.
C23_LogAppendOnlyUntilReload ==
  [][/\ handleConfigSave \/ IsPrefix(errorLog, errorLog')
     /\ \A fail \in ConnectionErrors :
          (CheckDbResponse(fail) /\ setErrorLog(CheckDbResponseLog(fail)))
            => Reported
     /\ \A login \in LogLogins : \A birthDate \in SessionDates :
          (/\ handleLogin(login, birthDate)
           /\ setErrorLog(handleLoginLog(errorLog, login, birthDate))
           /\ loginError' # NullMsg)
            => Reported
     /\ \A req \in Pending("login") : \A out \in LoginOutcomes :
          (/\ LoginResponse(req, out)
           /\ setErrorLog(LoginResponseLog(req, out))
           /\ loginError' # NullMsg)
            => Reported
     /\ \A req \in Pending("insert") : \A fail \in StoreErrors :
          (RegisterResponse(req, fail) /\ setErrorLog(RegisterResponseLog(req, fail)))
            => Reported
     /\ \A req \in Pending("list") : \A fail \in StoreErrors :
          (ListResponse(req, fail) /\ setErrorLog(ListResponseLog(fail)))
            => Reported
     /\ \A req \in Pending("upsert") : \A fail \in Failures :
          (/\ SaveResponse(req, fail)
           /\ setErrorLog(SaveResponseLog(req, fail))
           /\ fail # NoErr \/ ~ UpsertSucceeds(req))
            => Reported
     /\ \A req \in Pending("delete") : \A fail \in StoreErrors :
          (DeleteResponse(req, fail) /\ setErrorLog(DeleteResponseLog(fail)))
            => Reported
     /\ \A agentData \in FormInputs({}, SessionDates, {}) :
          (/\ handleSaveAgent(agentData)
           /\ setErrorLog(handleSaveAgentLog(agentData))
           /\ SaveForbidden(loggedInAgent, agentData))
            => Reported
     /\ \A id \in 1..MaxId :
          (/\ handleDeleteAgent(id, TRUE)
           /\ setErrorLog(handleDeleteAgentLog)
           /\ DeleteForbidden(loggedInAgent))
            => Reported
    ]_vars

\* After a logout the log still holds the entries of the session: the
\* login attempt, the store's answer and the failed save that followed.
C23_Witness ==
  /\ loggedInAgent = Null
  /\ Len(errorLog) = 3
  /\ errorLog[1].context = "LOGIN_ATTEMPT"
  /\ errorLog[2].context = "DB_RESPONSE"
  /\ errorLog[3] = LogEntry(SaveFailure(WriteErrorMessage(ErrNetwork)), "SAVE_AGENT")

\* C23 (as stated): in every step the log before the step is a prefix of
\* the log after it.
C23_LogAppendOnly ==
  [][IsPrefix(errorLog, errorLog')]_vars

====
